---- MODULE Spec2Model ----
(***************************************************************************)
(* Models of the programs of the repository, one specification each:       *)
(*                                                                         *)
(*   Spec, FairSpec  the MPSC channel of channels/src/lib.rs               *)
(*   MutexSpec       the spinlock Mutex of atomics-and-memory-ordering     *)
(*   RefCellSpec     RefCell, Ref and RefMut of smart-pointers-and-...     *)
(*   RcSpec          Rc of smart-pointers-and-interior-mutability          *)
(*   BuilderSpec     the code #[derive(Builder)] generates for a struct    *)
(*   VecSpec         the expansion of _vec!(element; count)                *)
(*   FlattenSpec     Flatten of iterators/src/lib.rs                       *)
(*   SplitSpec       StrSplit of lifetimes/src/lib.rs with a &str          *)
(*                   delimiter                                             *)
(*                                                                         *)
(* Each specification moves the variables of its own program and leaves    *)
(* those of the others at their initial values.                            *)
(*                                                                         *)
(* The channel: any number of Sender handles (cloned and dropped at run    *)
(* time) and the single Receiver, sharing a Mutex<Queue> and a Condvar.    *)
(* Every statement of send, clone, drop and receive that touches the       *)
(* mutex, the queue, the counter, the condition variable or the cache is   *)
(* one action, so that every interleaving of the threads is explored.      *)
(* No statement can panic while a guard is held, so the mutex is never     *)
(* poisoned and lock().unwrap() always returns the guard.                  *)
(***************************************************************************)
EXTENDS Integers, Sequences, FiniteSets, TLC

\* ---------------------------------------------------------------- bounds

\* Sender handles that ever exist: the one Channel::new returns and its clones.
MaxHandles == 3

\* Calls of send over the whole run.
MaxSends == 3

\* Calls of receive over the whole run.
MaxReceives == 4

\* Threads main spawns on the spinlock Mutex (10 in main).
MutexThreads == 3

\* Calls of execute by each of those threads (1000 in main).
MutexIters == 2

\* Ref and RefMut guards of the RefCell alive at once.
MaxGuards == 4

\* Rc handles of the one allocation alive at once.
MaxRcHandles == 4

\* Distinct values a builder setter is called with.
MaxFieldValue == 2

\* Values of the element of _vec!(element; count).
MaxElement == 3

\* Largest count of _vec!(element; count).
MaxCount == 7

\* Inner collections of the collection Flatten is made from.
MaxOuter == 3

\* Items of an inner collection.
MaxInner == 2

\* Bytes of the haystack StrSplit is made from.
MaxHaystack == 4

\* Bytes of the delimiter.
MaxDelimeter == 2

\* ----------------------------------------------------------------- state

VARIABLES
  queue,        \* Queue::_queue, the pending values (under the mutex)
  senderCount,  \* Queue::senderCount (under the mutex)
  lock,         \* the threads holding a MutexGuard of Channel::queue
  condVar,      \* the threads parked in Channel::condVar
  cache,        \* Receiver::cache
  hpc,          \* per Sender handle: where the operation on it stands
  noSenders,    \* per Sender handle: the local noSenders of its drop
  cloneOf,      \* per Sender handle being made by clone: the handle cloned
  rpc,          \* where the Receiver's receive stands
  rt,           \* the t the receive in progress popped from the queue
  appended,     \* history: the values in the order push_back appended them
  results       \* history: what each receive call returned, in order

chanVars == <<queue, senderCount, lock, condVar, cache, hpc, noSenders,
              cloneOf, rpc, rt, appended, results>>

\* The Sender handles; a handle also names the thread operating on it.
Handles == 1..MaxHandles

\* The Receiver's thread.
Rcv == 0

\* What a receive call returned: Some(t), or None (end-of-stream).  locked
\* records whether the call acquired the mutex.
Some(t, l) == [kind |-> "Some", v |-> t, locked |-> l]
None == [kind |-> "None", v |-> 0, locked |-> TRUE]

\* ------------------------------------------ state of the other programs

VARIABLES
  isLocked,     \* mutex::Mutex::isLocked
  data,         \* mutex::Mutex::data
  tpc,          \* per spawned thread: where its execute call stands
  tval,         \* per spawned thread: the value its closure read from data
  tleft,        \* per spawned thread: calls of execute still to make
  total         \* main: what its final assert_eq! found

mutexVars == <<isLocked, data, tpc, tval, tleft, total>>

VARIABLES
  currentReferences,  \* RefCell::currentReferences
  liveRefs,           \* the Ref guards of the RefCell that exist
  liveRefMuts,        \* the RefMut guards of the RefCell that exist
  lastBorrow,         \* what the last borrow or borrowMut returned
  cellPanicked        \* a drop of a guard panicked

cellVars == <<currentReferences, liveRefs, liveRefMuts, lastBorrow, cellPanicked>>

VARIABLES
  refCount,     \* _Rc::refCount
  rcHandles,    \* the Rc handles of the allocation that exist
  rcFrees,      \* how many times Box::from_raw freed the allocation
  rcPanicked    \* a drop of a handle panicked

rcVars == <<refCount, rcHandles, rcFrees, rcPanicked>>

VARIABLES
  fieldType,    \* per field of the struct: the path of its type, by segment
  builder,      \* the builder struct: per field, <<>> for None, <<v>> for Some(v)
  built         \* what the last call of build returned

builderVars == <<fieldType, builder, built>>

VARIABLE
  overflowChecks  \* the build profile: + and - panic on overflow, or wrap


VARIABLES
  argElement,   \* _vec!: the value the $element expression evaluates to
  argCount,     \* _vec!: the value of $count
  letX,         \* _vec!: let x
  letCount,     \* _vec!: let count
  xs,           \* _vec!: let mut xs
  forI,         \* _vec!: where the range 1..count of the for loop stands
  vecPc,        \* _vec!: where the expansion stands
  elementEvals  \* _vec!: how many times $element was evaluated

vecVars == <<argElement, argCount, letX, letCount, xs, forI, vecPc, elementEvals>>

VARIABLES
  collection,           \* what flatten() was called on: the inner collections
  outerIterator,        \* Flatten::outerIterator: the inner collections left
  frontInnerIterator,   \* Flatten::frontInnerIterator: <<>> None, <<it>> Some
  backInnerIterator,    \* Flatten::backInnerIterator: <<>> None, <<it>> Some
  yieldedFront,         \* history: the items next returned, in order
  yieldedBack,          \* history: the items next_back returned, in order
  lastItem              \* what the last next or next_back returned

flattenVars == <<collection, outerIterator, frontInnerIterator,
                 backInnerIterator, yieldedFront, yieldedBack, lastItem>>

VARIABLES
  haystack,     \* what StrSplit::new was called on, by byte
  delimeter,    \* StrSplit::delimeter, by byte
  remainder,    \* StrSplit::remainder: <<>> None, <<s>> Some(s)
  pieces,       \* history: the pieces next returned, in order
  lastPiece     \* what the last next returned: <<>> None, <<s>> Some(s)

splitVars == <<haystack, delimeter, remainder, pieces, lastPiece>>

\* Everything but the channel.
others == <<mutexVars, cellVars, rcVars, builderVars, overflowChecks,
            vecVars, flattenVars, splitVars>>

\* Every variable.
vars == <<chanVars, others>>

\* What each of the other programs leaves alone.
notMutex == <<chanVars, cellVars, rcVars, builderVars, overflowChecks,
    vecVars, flattenVars, splitVars>>
notCell == <<chanVars, mutexVars, rcVars, builderVars, overflowChecks,
    vecVars, flattenVars, splitVars>>
notRc == <<chanVars, mutexVars, cellVars, builderVars, overflowChecks,
    vecVars, flattenVars, splitVars>>
notBuilder == <<chanVars, mutexVars, cellVars, rcVars, overflowChecks,
    vecVars, flattenVars, splitVars>>
notVec == <<chanVars, mutexVars, cellVars, rcVars, builderVars, overflowChecks,
    flattenVars, splitVars>>
notFlatten == <<chanVars, mutexVars, cellVars, rcVars, builderVars,
    overflowChecks, vecVars, splitVars>>
notSplit == <<chanVars, mutexVars, cellVars, rcVars, builderVars,
    overflowChecks, vecVars, flattenVars>>

\* The threads main spawns.
Threads == 1..MutexThreads

\* Mutex::new(0): unlocked, value 0; every thread about to make its first call.
MutexInit ==
  /\ isLocked = FALSE
  /\ data = 0
  /\ tpc = [t \in Threads |-> "cas"]
  /\ tval = [t \in Threads |-> 0]
  /\ tleft = [t \in Threads |-> MutexIters]
  /\ total = "running"

\* enum References.
NoReferences == [tag |-> "None", n |-> 0]
Shared(n) == [tag |-> "Shared", n |-> n]
Exclusive == [tag |-> "Exclusive", n |-> 0]

\* RefCell::new: References::None, no guard handed out.
RefCellInit ==
  /\ currentReferences = NoReferences
  /\ liveRefs = 0
  /\ liveRefMuts = 0
  /\ lastBorrow = <<"-", "-">>
  /\ cellPanicked = FALSE

\* Rc::new: the allocation with refCount Cell::new(0), and the one handle.
RcInit ==
  /\ refCount = 0
  /\ rcHandles = 1
  /\ rcFrees = 0
  /\ rcPanicked = FALSE

\* The fields of struct Command, in declaration order.
Fields == <<"executable", "args", "env", "current_dir">>

FieldNames == {Fields[i] : i \in DOMAIN Fields}

\* Command::builder(): every field of the builder struct None.
BuilderNew == [f \in FieldNames |-> <<>>]

\* struct Command as declared (String, Vec<String>, Vec<String>,
\* Option<String>), its builder just made.
BuilderIdle ==
  /\ fieldType = [f \in FieldNames |->
                    IF f = "executable" THEN <<"String">>
                    ELSE IF f = "current_dir" THEN <<"Option">>
                    ELSE <<"Vec">>]
  /\ builder = BuilderNew
  /\ built = <<>>

\* _vec!(1; 0) not yet expanded.
VecIdle ==
  /\ argElement = 1
  /\ argCount = 0
  /\ letX = 0
  /\ letCount = 0
  /\ xs = <<>>
  /\ forI = 1
  /\ vecPc = "start"
  /\ elementEvals = 0

\* Flatten::new on what is left of the collection c: both inner iterators None.
FlattenNew(c) ==
  /\ collection = c
  /\ outerIterator = c
  /\ frontInnerIterator = <<>>
  /\ backInnerIterator = <<>>
  /\ yieldedFront = <<>>
  /\ yieldedBack = <<>>
  /\ lastItem = <<>>

\* flatten of the empty collection.
FlattenIdle == FlattenNew(<<>>)

\* StrSplit::new(h, d): remainder Some(h).
StrSplitNew(h, d) ==
  /\ haystack = h
  /\ delimeter = d
  /\ remainder = <<h>>
  /\ pieces = <<>>
  /\ lastPiece = <<>>

\* StrSplit::new("", "a").
SplitIdle == StrSplitNew(<<>>, <<"a">>)

\* The programs of the second group not started.
RestIdle == VecIdle /\ FlattenIdle /\ SplitIdle

\* The other programs not started (overflow checks as in the dev profile).
OthersIdle ==
  /\ MutexInit /\ RefCellInit /\ RcInit /\ BuilderIdle /\ overflowChecks = TRUE
  /\ RestIdle

\* Channel::new: an empty queue, senderCount 1, one Sender, one Receiver with
\* an empty cache.
Init ==
  /\ queue = <<>>
  /\ senderCount = 1
  /\ lock = {}
  /\ condVar = {}
  /\ cache = <<>>
  /\ hpc = [h \in Handles |-> IF h = 1 THEN "idle" ELSE "unborn"]
  /\ noSenders = [h \in Handles |-> FALSE]
  /\ cloneOf = [h \in Handles |-> 0]
  /\ rpc = "idle"
  /\ rt = 0
  /\ appended = <<>>
  /\ results = <<>>
  /\ OthersIdle

\* ------------------------------------------------- mutex and condvar

\* Mutex::lock returns once no other guard exists.
Acquire(t) == lock = {} /\ lock' = {t}

\* drop(MutexGuard).
Release(t) == lock' = lock \ {t}

\* Condvar::notify_one: wakes one parked thread, if there is one; the woken
\* Receiver goes on to reacquire the mutex.  With nobody parked it does nothing.
NotifyOne ==
  IF condVar = {}
  THEN UNCHANGED <<condVar, rpc>>
  ELSE \E w \in condVar :
         /\ condVar' = condVar \ {w}
         /\ rpc' = IF w = Rcv THEN "r_wake" ELSE rpc

\* The &self borrows of handle h: the clones of h in progress.
Borrowed(h) == \E n \in Handles : cloneOf[n] = h

\* --------------------------------------------------------- Sender::send

\* The send calls made so far: the values appended and the calls yet to append.
Sent == Len(appended) + Cardinality({h \in Handles : hpc[h] \in {"s_lock", "s_push"}})

\* The values are told apart by the order of their push_back: the k-th value
\* appended is k.
NextValue == Len(appended) + 1

SendCall(h) ==
  /\ hpc[h] = "idle" /\ ~Borrowed(h)
  /\ Sent < MaxSends
  /\ hpc' = [hpc EXCEPT ![h] = "s_lock"]
  /\ UNCHANGED <<queue, senderCount, lock, condVar, cache, noSenders, cloneOf,
                 rpc, rt, appended, results>>
  /\ UNCHANGED others

\* The guard dropped as soon as lock() returns (a guard bound to nothing).
SendLockUnheld(h) ==
  /\ hpc[h] = "s_lock"
  /\ lock = {}
  /\ hpc' = [hpc EXCEPT ![h] = "s_push"]
  /\ UNCHANGED <<queue, senderCount, lock, condVar, cache, noSenders, cloneOf,
                 rpc, rt, appended, results>>
  /\ UNCHANGED others

\* A bounded (synchronous) channel: the sender waits while the queue is full.
SendLockBounded(h) ==
  /\ hpc[h] = "s_lock"
  /\ Len(queue) < 2
  /\ Acquire(h)
  /\ hpc' = [hpc EXCEPT ![h] = "s_push"]
  /\ UNCHANGED <<queue, senderCount, condVar, cache, noSenders, cloneOf,
                 rpc, rt, appended, results>>
  /\ UNCHANGED others

SendLock(h) ==
  /\ hpc[h] = "s_lock"
  /\ Acquire(h)
  /\ hpc' = [hpc EXCEPT ![h] = "s_push"]
  /\ UNCHANGED <<queue, senderCount, condVar, cache, noSenders, cloneOf,
                 rpc, rt, appended, results>>
  /\ UNCHANGED others

\* push_front in place of push_back.
SendPushFront(h) ==
  /\ hpc[h] = "s_push"
  /\ queue' = <<NextValue>> \o queue
  /\ appended' = Append(appended, NextValue)
  /\ hpc' = [hpc EXCEPT ![h] = "s_unlock"]
  /\ UNCHANGED <<senderCount, lock, condVar, cache, noSenders, cloneOf,
                 rpc, rt, results>>
  /\ UNCHANGED others

\* send that signals before it drops the guard.
SendPushThenNotify(h) ==
  /\ hpc[h] = "s_push"
  /\ queue' = Append(queue, NextValue)
  /\ appended' = Append(appended, NextValue)
  /\ hpc' = [hpc EXCEPT ![h] = "s_notify"]
  /\ UNCHANGED <<senderCount, lock, condVar, cache, noSenders, cloneOf,
                 rpc, rt, results>>
  /\ UNCHANGED others

SendPush(h) ==
  /\ hpc[h] = "s_push"
  /\ queue' = Append(queue, NextValue)
  /\ appended' = Append(appended, NextValue)
  /\ hpc' = [hpc EXCEPT ![h] = "s_unlock"]
  /\ UNCHANGED <<senderCount, lock, condVar, cache, noSenders, cloneOf,
                 rpc, rt, results>>
  /\ UNCHANGED others

SendUnlock(h) ==
  /\ hpc[h] = "s_unlock"
  /\ Release(h)
  /\ hpc' = [hpc EXCEPT ![h] = "s_notify"]
  /\ UNCHANGED <<queue, senderCount, condVar, cache, noSenders, cloneOf,
                 rpc, rt, appended, results>>
  /\ UNCHANGED others

\* send without its notify_one.
SendNoNotify(h) ==
  /\ hpc[h] = "s_notify"
  /\ hpc' = [hpc EXCEPT ![h] = "idle"]
  /\ UNCHANGED <<queue, senderCount, lock, condVar, cache, noSenders, cloneOf,
                 rpc, rt, appended, results>>
  /\ UNCHANGED others

SendNotify(h) ==
  /\ hpc[h] = "s_notify"
  /\ NotifyOne
  /\ hpc' = [hpc EXCEPT ![h] = "idle"]
  /\ UNCHANGED <<queue, senderCount, lock, cache, noSenders, cloneOf,
                 rt, appended, results>>
  /\ UNCHANGED others

\* ------------------------------------------------------ Sender::clone

\* clone(&self) of handle h, making the next handle n; h stays usable for
\* other clones (a shared borrow) but not for send or drop until it returns.
CloneCall(h, n) ==
  /\ hpc[h] = "idle"
  /\ hpc[n] = "unborn"
  /\ \A m \in Handles : m < n => hpc[m] # "unborn"
  /\ hpc' = [hpc EXCEPT ![n] = "c_lock"]
  /\ cloneOf' = [cloneOf EXCEPT ![n] = h]
  /\ UNCHANGED <<queue, senderCount, lock, condVar, cache, noSenders,
                 rpc, rt, appended, results>>
  /\ UNCHANGED others

CloneLock(n) ==
  /\ hpc[n] = "c_lock"
  /\ Acquire(n)
  /\ hpc' = [hpc EXCEPT ![n] = "c_inc"]
  /\ UNCHANGED <<queue, senderCount, condVar, cache, noSenders, cloneOf,
                 rpc, rt, appended, results>>
  /\ UNCHANGED others

\* clone without senderCount += 1.
CloneNoInc(n) ==
  /\ hpc[n] = "c_inc"
  /\ hpc' = [hpc EXCEPT ![n] = "c_unlock"]
  /\ UNCHANGED <<queue, senderCount, lock, condVar, cache, noSenders, cloneOf,
                 rpc, rt, appended, results>>
  /\ UNCHANGED others

CloneInc(n) ==
  /\ hpc[n] = "c_inc"
  /\ senderCount' = senderCount + 1
  /\ hpc' = [hpc EXCEPT ![n] = "c_unlock"]
  /\ UNCHANGED <<queue, lock, condVar, cache, noSenders, cloneOf,
                 rpc, rt, appended, results>>
  /\ UNCHANGED others

\* drop(guard), then the new Sender is returned.
CloneUnlock(n) ==
  /\ hpc[n] = "c_unlock"
  /\ Release(n)
  /\ hpc' = [hpc EXCEPT ![n] = "idle"]
  /\ cloneOf' = [cloneOf EXCEPT ![n] = 0]
  /\ UNCHANGED <<queue, senderCount, condVar, cache, noSenders,
                 rpc, rt, appended, results>>
  /\ UNCHANGED others

\* ------------------------------------------------------- Sender::drop

DropCall(h) ==
  /\ hpc[h] = "idle" /\ ~Borrowed(h)
  /\ hpc' = [hpc EXCEPT ![h] = "d_lock"]
  /\ UNCHANGED <<queue, senderCount, lock, condVar, cache, noSenders,
                 cloneOf, rpc, rt, appended, results>>
  /\ UNCHANGED others

DropLock(h) ==
  /\ hpc[h] = "d_lock"
  /\ Acquire(h)
  /\ hpc' = [hpc EXCEPT ![h] = "d_dec"]
  /\ UNCHANGED <<queue, senderCount, condVar, cache, noSenders, cloneOf,
                 rpc, rt, appended, results>>
  /\ UNCHANGED others

\* drop that closes the channel whatever the number of Senders left.
DropDecAll(h) ==
  /\ hpc[h] = "d_dec"
  /\ senderCount' = 0
  /\ noSenders' = [noSenders EXCEPT ![h] = TRUE]
  /\ hpc' = [hpc EXCEPT ![h] = "d_unlock"]
  /\ UNCHANGED <<queue, lock, condVar, cache, cloneOf,
                 rpc, rt, appended, results>>
  /\ UNCHANGED others

\* drop without senderCount -= 1.
DropNoDec(h) ==
  /\ hpc[h] = "d_dec"
  /\ noSenders' = [noSenders EXCEPT ![h] = (senderCount = 0)]
  /\ hpc' = [hpc EXCEPT ![h] = "d_unlock"]
  /\ UNCHANGED <<queue, senderCount, lock, condVar, cache, cloneOf,
                 rpc, rt, appended, results>>
  /\ UNCHANGED others

\* senderCount -= 1 and the test senderCount == 0, both under the guard.
\* (senderCount is a usize; a result below 0 here stands for its underflow.)
\* drop that also discards what is queued.
DropDecClearsQueue(h) ==
  /\ hpc[h] = "d_dec"
  /\ senderCount' = senderCount - 1
  /\ noSenders' = [noSenders EXCEPT ![h] = (senderCount - 1 = 0)]
  /\ queue' = <<>>
  /\ hpc' = [hpc EXCEPT ![h] = "d_unlock"]
  /\ UNCHANGED <<lock, condVar, cache, cloneOf,
                 rpc, rt, appended, results>>
  /\ UNCHANGED others

DropDec(h) ==
  /\ hpc[h] = "d_dec"
  /\ senderCount' = senderCount - 1
  /\ noSenders' = [noSenders EXCEPT ![h] = (senderCount - 1 = 0)]
  /\ hpc' = [hpc EXCEPT ![h] = "d_unlock"]
  /\ UNCHANGED <<queue, lock, condVar, cache, cloneOf,
                 rpc, rt, appended, results>>
  /\ UNCHANGED others

\* drop that never signals the condition variable.
DropUnlockNoNotify(h) ==
  /\ hpc[h] = "d_unlock"
  /\ Release(h)
  /\ hpc' = [hpc EXCEPT ![h] = "gone"]
  /\ noSenders' = [noSenders EXCEPT ![h] = FALSE]
  /\ UNCHANGED <<queue, senderCount, condVar, cache, cloneOf,
                 rpc, rt, appended, results>>
  /\ UNCHANGED others

\* drop(guard) and the test of noSenders, which then goes out of scope.
\* drop that signals whatever the count.
DropUnlockAlwaysNotify(h) ==
  /\ hpc[h] = "d_unlock"
  /\ Release(h)
  /\ hpc' = [hpc EXCEPT ![h] = "d_notify"]
  /\ noSenders' = [noSenders EXCEPT ![h] = FALSE]
  /\ UNCHANGED <<queue, senderCount, condVar, cache, cloneOf,
                 rpc, rt, appended, results>>
  /\ UNCHANGED others

DropUnlock(h) ==
  /\ hpc[h] = "d_unlock"
  /\ Release(h)
  /\ hpc' = [hpc EXCEPT ![h] = IF noSenders[h] THEN "d_notify" ELSE "gone"]
  /\ noSenders' = [noSenders EXCEPT ![h] = FALSE]
  /\ UNCHANGED <<queue, senderCount, condVar, cache, cloneOf,
                 rpc, rt, appended, results>>
  /\ UNCHANGED others

\* The last drop's notify_one reaching no waiter.
DropNotifyNothing(h) ==
  /\ hpc[h] = "d_notify"
  /\ hpc' = [hpc EXCEPT ![h] = "gone"]
  /\ UNCHANGED <<queue, senderCount, lock, condVar, cache, noSenders, cloneOf,
                 rpc, rt, appended, results>>
  /\ UNCHANGED others

DropNotify(h) ==
  /\ hpc[h] = "d_notify"
  /\ NotifyOne
  /\ hpc' = [hpc EXCEPT ![h] = "gone"]
  /\ UNCHANGED <<queue, senderCount, lock, cache, noSenders, cloneOf,
                 rt, appended, results>>
  /\ UNCHANGED others

\* --------------------------------------------------- Receiver::receive

\* The fast path: cache.pop_front() is Some(t), returned without the mutex.
RecvCached ==
  /\ rpc = "idle"
  /\ Len(results) < MaxReceives
  /\ cache # <<>>
  /\ cache' = Tail(cache)
  /\ results' = Append(results, Some(Head(cache), FALSE))
  /\ UNCHANGED <<queue, senderCount, lock, condVar, hpc, noSenders,
                 cloneOf, rpc, rt, appended>>
  /\ UNCHANGED others

\* cache.pop_front() is None: go for the mutex.
\* receive going for the lock without looking at the cache first.
RecvCallAlways ==
  /\ rpc = "idle"
  /\ Len(results) < MaxReceives
  /\ rpc' = "r_lock"
  /\ UNCHANGED <<queue, senderCount, lock, condVar, cache, hpc,
                 noSenders, cloneOf, rt, appended, results>>
  /\ UNCHANGED others

RecvCall ==
  /\ rpc = "idle"
  /\ Len(results) < MaxReceives
  /\ cache = <<>>
  /\ rpc' = "r_lock"
  /\ UNCHANGED <<queue, senderCount, lock, condVar, cache, hpc,
                 noSenders, cloneOf, rt, appended, results>>
  /\ UNCHANGED others

RecvLock ==
  /\ rpc = "r_lock"
  /\ Acquire(Rcv)
  /\ rpc' = "r_match"
  /\ UNCHANGED <<queue, senderCount, condVar, cache, hpc, noSenders,
                 cloneOf, rt, appended, results>>
  /\ UNCHANGED others

\* _queue.pop_front() is Some(t).
RecvPop ==
  /\ rpc = "r_match"
  /\ queue # <<>>
  /\ rt' = Head(queue)
  /\ queue' = Tail(queue)
  /\ rpc' = IF Tail(queue) # <<>> THEN "r_swap" ELSE "r_ret"
  /\ UNCHANGED <<senderCount, lock, condVar, cache, hpc, noSenders,
                 cloneOf, appended, results>>
  /\ UNCHANGED others

\* The rest of the queue copied into the cache and left in the queue.
RecvSwapCopy ==
  /\ rpc = "r_swap"
  /\ cache' = queue
  /\ rpc' = "r_ret"
  /\ UNCHANGED <<queue, senderCount, lock, condVar, hpc, noSenders,
                 cloneOf, rt, appended, results>>
  /\ UNCHANGED others

\* receive without the swap.
RecvNoSwap ==
  /\ rpc = "r_swap"
  /\ rpc' = "r_ret"
  /\ UNCHANGED <<queue, cache, senderCount, lock, condVar, hpc, noSenders,
                 cloneOf, rt, appended, results>>
  /\ UNCHANGED others

\* swap(&mut self.cache, &mut _queue).
RecvSwap ==
  /\ rpc = "r_swap"
  /\ cache' = queue
  /\ queue' = cache
  /\ rpc' = "r_ret"
  /\ UNCHANGED <<senderCount, lock, condVar, hpc, noSenders,
                 cloneOf, rt, appended, results>>
  /\ UNCHANGED others

\* return Some(t): the guard goes out of scope.
RecvReturn ==
  /\ rpc = "r_ret"
  /\ Release(Rcv)
  /\ results' = Append(results, Some(rt, TRUE))
  /\ rt' = 0
  /\ rpc' = "idle"
  /\ UNCHANGED <<queue, senderCount, condVar, cache, hpc, noSenders,
                 cloneOf, appended>>
  /\ UNCHANGED others

\* The test senderCount == 0 made before the pop.
RecvNoneBeforePop ==
  /\ rpc = "r_match"
  /\ senderCount = 0
  /\ Release(Rcv)
  /\ results' = Append(results, None)
  /\ rpc' = "idle"
  /\ UNCHANGED <<queue, senderCount, condVar, cache, hpc, noSenders,
                 cloneOf, rt, appended>>
  /\ UNCHANGED others

\* The test off by one: senderCount <= 1.
RecvNoneOffByOne ==
  /\ rpc = "r_match"
  /\ queue = <<>>
  /\ senderCount <= 1
  /\ Release(Rcv)
  /\ results' = Append(results, None)
  /\ rpc' = "idle"
  /\ UNCHANGED <<queue, senderCount, condVar, cache, hpc, noSenders,
                 cloneOf, rt, appended>>
  /\ UNCHANGED others

\* None if senderCount == 0 => return None.
RecvNone ==
  /\ rpc = "r_match"
  /\ queue = <<>>
  /\ senderCount = 0
  /\ Release(Rcv)
  /\ results' = Append(results, None)
  /\ rpc' = "idle"
  /\ UNCHANGED <<queue, senderCount, condVar, cache, hpc, noSenders,
                 cloneOf, rt, appended>>
  /\ UNCHANGED others

\* None => condVar.wait(guard): the mutex is released and the thread parked,
\* atomically.
\* The wait arm taken without looking at senderCount.
RecvWaitAlways ==
  /\ rpc = "r_match"
  /\ queue = <<>>
  /\ Release(Rcv)
  /\ condVar' = condVar \cup {Rcv}
  /\ rpc' = "r_wait"
  /\ UNCHANGED <<queue, senderCount, cache, hpc, noSenders,
                 cloneOf, rt, appended, results>>
  /\ UNCHANGED others

\* A wait that parks the Receiver without giving up the guard.
RecvWaitHoldingLock ==
  /\ rpc = "r_match"
  /\ queue = <<>>
  /\ senderCount # 0
  /\ condVar' = condVar \cup {Rcv}
  /\ rpc' = "r_wait"
  /\ UNCHANGED <<queue, senderCount, lock, cache, hpc, noSenders,
                 cloneOf, rt, appended, results>>
  /\ UNCHANGED others

RecvWait ==
  /\ rpc = "r_match"
  /\ queue = <<>>
  /\ senderCount # 0
  /\ Release(Rcv)
  /\ condVar' = condVar \cup {Rcv}
  /\ rpc' = "r_wait"
  /\ UNCHANGED <<queue, senderCount, cache, hpc, noSenders,
                 cloneOf, rt, appended, results>>
  /\ UNCHANGED others

\* Condvar::wait may wake with no notification.
SpuriousWake ==
  /\ rpc = "r_wait"
  /\ Rcv \in condVar
  /\ condVar' = condVar \ {Rcv}
  /\ rpc' = "r_wake"
  /\ UNCHANGED <<queue, senderCount, lock, cache, hpc, noSenders,
                 cloneOf, rt, appended, results>>
  /\ UNCHANGED others

\* wait returns once the woken thread has the mutex again; the loop repeats.
\* A wake-up taken as the end of the stream: None without a re-check.
RecvWakeReturns ==
  /\ rpc = "r_wake"
  /\ lock = {}
  /\ rpc' = "idle"
  /\ results' = Append(results, None)
  /\ UNCHANGED <<queue, senderCount, lock, condVar, cache, hpc, noSenders,
                 cloneOf, rt, appended>>
  /\ UNCHANGED others

RecvWake ==
  /\ rpc = "r_wake"
  /\ Acquire(Rcv)
  /\ rpc' = "r_match"
  /\ UNCHANGED <<queue, senderCount, condVar, cache, hpc, noSenders,
                 cloneOf, rt, appended, results>>
  /\ UNCHANGED others

\* The Receiver goes out of scope between two calls; its cache goes with it.
RecvDrop ==
  /\ rpc = "idle"
  /\ rpc' = "dropped"
  /\ cache' = <<>>
  /\ UNCHANGED <<queue, senderCount, lock, condVar, hpc, noSenders,
                 cloneOf, rt, appended, results>>
  /\ UNCHANGED others

\* ------------------------------------------------------ specification

SenderStep(h) ==
  \/ SendLock(h) \/ SendPush(h) \/ SendUnlock(h) \/ SendNotify(h)
  \/ CloneLock(h) \/ CloneInc(h) \/ CloneUnlock(h)
  \/ DropLock(h) \/ DropDec(h) \/ DropUnlock(h) \/ DropNotify(h)

ReceiverStep ==
  \/ RecvLock \/ RecvPop \/ RecvSwap \/ RecvReturn \/ RecvNone \/ RecvWait
  \/ RecvWake

Next ==
  \/ \E h \in Handles : SendCall(h) \/ DropCall(h) \/ SenderStep(h)
  \/ \E h, n \in Handles : CloneCall(h, n)
  \/ RecvCached \/ RecvCall \/ ReceiverStep
  \/ SpuriousWake
  \/ RecvDrop

Spec == Init /\ [][Next]_vars

\* Fair scheduling: a thread inside an operation keeps running, and the mutex
\* does not starve the threads blocked on it: if it is free again and again,
\* some blocked Sender thread gets it, and so does the blocked Receiver.  (One
\* condition for all Sender threads is weaker than one for each.)  Starting an
\* operation and waking spuriously are never forced.
FairSpec ==
  /\ Spec
  /\ \A h \in Handles :
       WF_vars(\/ SendPush(h) \/ SendUnlock(h) \/ SendNotify(h)
               \/ CloneInc(h) \/ CloneUnlock(h)
               \/ DropDec(h) \/ DropUnlock(h) \/ DropNotify(h))
  /\ WF_vars(RecvPop \/ RecvSwap \/ RecvReturn \/ RecvNone \/ RecvWait)
  /\ SF_vars(\E h \in Handles : SendLock(h) \/ CloneLock(h) \/ DropLock(h))
  /\ SF_vars(RecvLock \/ RecvWake)

\* ------------------------------------------------------------ histories

\* The calls of receive that returned a value, and the values in call order.
SomeResults == SelectSeq(results, LAMBDA r : r.kind = "Some")
Returned == [i \in 1..Len(SomeResults) |-> SomeResults[i].v]

IsPrefix(s, t) == Len(s) <= Len(t) /\ SubSeq(t, 1, Len(s)) = s

Range(s) == {s[i] : i \in DOMAIN s}

HasNone == \E i \in DOMAIN results : results[i].kind = "None"

\* The handles a thread can still send on or clone.
LiveHandles ==
  {h \in Handles : hpc[h] \in {"idle", "s_lock", "s_push", "s_unlock", "s_notify"}}

InCloneOrDrop ==
  \E h \in Handles :
    hpc[h] \in {"c_lock", "c_inc", "c_unlock", "d_lock", "d_dec", "d_unlock", "d_notify"}

\* The channel as Channel::new returned it: nothing has been called yet.
Fresh ==
  /\ hpc = [h \in Handles |-> IF h = 1 THEN "idle" ELSE "unborn"]
  /\ appended = <<>>
  /\ results = <<>>
  /\ rpc = "idle"

\* --------------------------------------------------------------- claims

\* C1: the values receive has returned are, in order, a prefix of the values
\* in the order push_back appended them to the shared queue, whether they came
\* from the queue or from the cache.
C1_FifoPrefix == IsPrefix(Returned, appended)

\* Three values returned, the second from the cache and the third under the
\* mutex again, with at least two Senders around.
C1_Witness ==
  /\ Len(Returned) = 3
  /\ results[2].kind = "Some" /\ ~results[2].locked
  /\ results[3].kind = "Some" /\ results[3].locked
  /\ Cardinality({h \in Handles : hpc[h] # "unborn"}) >= 2

\* C2: no value is returned twice, every value returned is one a Sender
\* appended, and the first receive call returns the first value sent (None
\* only if nothing was ever sent).
C2_ExactlyOnce ==
  /\ \A i, j \in DOMAIN Returned : Returned[i] = Returned[j] => i = j
  /\ Range(Returned) \subseteq Range(appended)
  /\ (results # <<>> /\ results[1].kind = "Some") => results[1].v = appended[1]
  /\ (results # <<>> /\ results[1].kind = "None") => appended = <<>>

\* send(v), receive returns v, the Sender is dropped, receive returns None.
C2_Witness ==
  /\ Len(appended) = 1
  /\ Len(results) = 2
  /\ results[1] = Some(appended[1], TRUE)
  /\ results[2].kind = "None"

\* C3: when a receive call returns None, the calls before it have returned
\* every value ever appended, in the order of their appending.
SomeBefore(i) == SelectSeq(SubSeq(results, 1, i - 1), LAMBDA r : r.kind = "Some")
C3_DrainBeforeNone ==
  \A i \in DOMAIN results :
    results[i].kind = "None" =>
      [k \in 1..Len(SomeBefore(i)) |-> SomeBefore(i)[k].v] = appended

\* Two values appended; receive returns one from the queue, one from the
\* cache, and the third call returns None.
C3_Witness ==
  /\ Len(appended) = 2
  /\ Len(results) = 3
  /\ results[1].kind = "Some" /\ results[2].kind = "Some" /\ ~results[2].locked
  /\ results[3].kind = "None"

\* C4: once a receive call has returned None, every later call returns None,
\* and none of them waits on the condition variable.
C4_NonePermanent ==
  /\ \A i, j \in DOMAIN results :
       (i < j /\ results[i].kind = "None") => results[j].kind = "None"
  /\ HasNone => rpc \notin {"r_wait", "r_wake"}

\* The only Sender dropped before anything was sent: None, and None again.
C4_Witness ==
  /\ appended = <<>>
  /\ Len(results) >= 2
  /\ results[1].kind = "None" /\ results[2].kind = "None"

\* C7: once receive has returned None no Sender is left that can send or be
\* cloned, and none is being made: every handle is unborn (and stays so), gone,
\* or in the last statement of its drop.
C7_NoneOnlyWithoutSenders ==
  HasNone => \A h \in Handles : hpc[h] \in {"unborn", "gone", "d_notify"}

\* None returned after two clones, the last drop still to notify.
C7_Witness ==
  /\ HasNone
  /\ \A h \in Handles : hpc[h] \in {"gone", "d_notify"}
  /\ \E h \in Handles : hpc[h] = "d_notify"

\* C10: senderCount is 1 on the fresh channel, with queue and cache empty; it
\* is never negative; and with no clone or drop in progress it is the number
\* of live Sender handles.
C10_CountIsLiveHandles ==
  /\ Fresh => (senderCount = 1 /\ queue = <<>> /\ cache = <<>>)
  /\ senderCount >= 0
  /\ ~InCloneOrDrop => senderCount = Cardinality(LiveHandles)

\* Two live handles after two clones and one drop, nothing in progress.
C10_Witness ==
  /\ ~InCloneOrDrop
  /\ senderCount = 2
  /\ \E h \in Handles : hpc[h] = "gone"
  /\ \A h \in Handles : hpc[h] # "unborn"

\* The Receiver is inside receive, short of having popped a value.
InReceive == rpc \in {"r_lock", "r_match", "r_wait", "r_wake"}

\* The Receiver is parked on the condition variable, the queue is empty and
\* the last Sender has been dropped.
ParkedAndClosed == rpc = "r_wait" /\ queue = <<>> /\ senderCount = 0

\* C5: under fair scheduling a Receiver parked on the condition variable with
\* the queue empty is woken and returns once senderCount has reached 0,
\* however many clones and drops led there; what that call returns is None;
\* and while senderCount stays above 0 and the queue empty the call does not
\* return.
C5_LastDropWakes ==
  /\ ParkedAndClosed ~> (rpc = "idle")
  /\ [][(InReceive /\ queue = <<>> /\ senderCount = 0 /\ results' # results)
          => results' = Append(results, None)]_vars
  /\ [][(InReceive /\ queue' = <<>> /\ senderCount' > 0) => results' = results]_vars

\* The Receiver parked, the queue empty, the count back at 0 after every
\* handle was made and dropped, the last drop yet to notify.
C5_Witness ==
  /\ ParkedAndClosed /\ Rcv \in condVar
  /\ \A h \in Handles : hpc[h] \in {"gone", "d_notify"}
  /\ \E h \in Handles : hpc[h] = "d_notify"

\* The last call of receive returned a value.
LastIsSome == results # <<>> /\ results[Len(results)].kind = "Some"

\* C6: under fair scheduling a receive in progress with a value in the queue
\* returns, and what it returns is a value: while it is short of its pop and
\* the queue is non-empty it cannot return None, and no notification is lost
\* between its test of the queue and its wait.
C6_NoLostWakeup ==
  /\ (InReceive /\ queue # <<>>) ~> (rpc = "idle" /\ LastIsSome)
  /\ [][(InReceive /\ queue # <<>>) => results' = results]_vars

\* A value appended while the Receiver is parked on the condition variable.
C6_Witness == rpc = "r_wait" /\ Rcv \in condVar /\ queue # <<>>

SendInProgress(h) == hpc[h] \in {"s_lock", "s_push", "s_unlock", "s_notify"}

\* C8: under fair scheduling the sends in progress all return (a send leaves
\* that state only by returning); the push_back of a send always appends its
\* value, whatever the length of the queue; and no Sender thread is ever
\* parked on the condition variable.
C8_SendCompletes ==
  /\ (\E h \in Handles : SendInProgress(h)) ~> (\A h \in Handles : ~SendInProgress(h))
  /\ [][\A h \in Handles :
          (hpc[h] = "s_push" /\ hpc'[h] # "s_push") =>
            (queue' = Append(queue, NextValue) /\ hpc'[h] = "s_unlock")]_vars
  /\ [](condVar \subseteq {Rcv})

\* Every send of the run has returned with the Receiver dropped and nothing
\* ever received: the queue holds them all.
C8_Witness ==
  /\ rpc = "dropped"
  /\ results = <<>>
  /\ Len(queue) = MaxSends
  /\ \A h \in Handles : ~SendInProgress(h)

\* The Receiver takes a step of receive (it is not being dropped).
ReceiverActs == (rpc' # rpc \/ results' # results) /\ rpc' # "dropped"

\* A receive call made with a non-empty cache returns the front of the cache
\* and touches neither the mutex nor the queue.
CachedCallSkipsLock ==
  (rpc = "idle" /\ cache # <<>> /\ ReceiverActs) =>
    /\ results' = Append(results, Some(Head(cache), FALSE))
    /\ cache' = Tail(cache)
    /\ rpc' = "idle" /\ lock' = lock /\ queue' = queue

\* The values appended and not yet returned, oldest first: the value the
\* receive in progress has popped, then the cache, then the queue.
Undelivered ==
  (IF rpc \in {"r_swap", "r_ret"} THEN <<rt>> ELSE <<>>) \o cache \o queue

\* As long as the Receiver exists, the values appended are those returned
\* followed by those undelivered; and when a call that took the mutex returns
\* its value the queue is empty: the values that were behind it in the queue
\* are in the cache, in push order.
RestIsCached ==
  /\ rpc # "dropped" => Returned \o Undelivered = appended
  /\ rpc = "r_ret" => queue = <<>>

\* C9 as stated: a call made with a non-empty cache is served from the cache;
\* and whenever k >= 1 values have been pushed and sit in the queue with no
\* receive and no send in progress, the next call is the one that acquires
\* the mutex (the k - 1 others being served from the cache after it).
C9_Original ==
  /\ [][CachedCallSkipsLock]_vars
  /\ [][(/\ rpc = "idle" /\ queue # <<>>
          /\ lock = {} /\ \A h \in Handles : ~SendInProgress(h)
          /\ ReceiverActs) =>
          (rpc' = "r_lock" /\ results' = results)]_vars
  /\ []RestIsCached

\* C9, amended: a call made with a non-empty cache returns the front of the
\* cache without acquiring the mutex; with k >= 1 values in the queue, no
\* receive in progress and the cache empty, the next call acquires the mutex
\* and returns the first of them, and when it returns the others are in the
\* cache in push order, so that the calls after it return them without the
\* mutex.
C9_CacheFastPath ==
  /\ [][CachedCallSkipsLock]_vars
  /\ [][(rpc = "idle" /\ cache = <<>> /\ ReceiverActs) =>
          (rpc' = "r_lock" /\ results' = results)]_vars
  /\ []RestIsCached

\* Three values pushed, then three calls: the first under the mutex, the
\* other two from the cache.
C9_Witness ==
  /\ Len(results) = 3
  /\ results[1].kind = "Some" /\ results[1].locked
  /\ results[2].kind = "Some" /\ ~results[2].locked
  /\ results[3].kind = "Some" /\ ~results[3].locked

\* Thread t takes a step.
Moved(t) == IF t = Rcv THEN rpc' # rpc ELSE hpc'[t] # hpc[t]

\* The threads whose next statement reads or writes _queue or senderCount.
AtSharedAccess ==
  {h \in Handles : hpc[h] \in {"s_push", "c_inc", "d_dec"}}
    \cup (IF rpc \in {"r_match", "r_swap"} THEN {Rcv} ELSE {})

\* C11: at most one thread holds the mutex; a thread about to read or write
\* _queue or senderCount holds it; and every step that changes one of them is
\* taken by the one thread that holds it.
C11_AccessUnderLock ==
  /\ [](Cardinality(lock) <= 1)
  /\ [](\A t \in AtSharedAccess : lock = {t})
  /\ [][(queue' # queue \/ senderCount' # senderCount) =>
          \E t \in lock : lock = {t} /\ Moved(t)]_vars

\* A Sender about to push under the mutex while the Receiver and another
\* Sender thread are blocked on it.
C11_Witness ==
  /\ \E h \in Handles : hpc[h] = "s_push" /\ lock = {h}
  /\ rpc = "r_lock"
  /\ \E h \in Handles : hpc[h] \in {"c_lock", "d_lock"}

\* C12: once senderCount is 0 it stays 0, and no value is appended to the
\* queue any more (the queue only shrinks).
C12_ClosureIrreversible ==
  [][senderCount = 0 =>
       (senderCount' = 0 /\ appended' = appended /\ Len(queue') <= Len(queue))]_vars

\* Every handle made and dropped, values still in the queue, some received.
C12_Witness ==
  /\ senderCount = 0
  /\ \A h \in Handles : hpc[h] = "gone"
  /\ queue # <<>>
  /\ results # <<>>

\* The channel as the shared state shows it: 0 while a Sender exists, 1 with
\* no Sender and values queued, 2 with no Sender and the queue empty.
Phase == IF senderCount # 0 THEN 0 ELSE IF queue # <<>> THEN 1 ELSE 2

Closed == Phase = 2

\* C17 as stated: a receive call made when senderCount is 0 and the queue is
\* empty returns no value, whatever the cache holds.
C17_Original ==
  [][(rpc = "idle" /\ Closed /\ ReceiverActs) => results' = results]_vars

\* C17: the shared state only moves from open to draining to closed; a receive
\* call made when senderCount is 0, the queue is empty and the cache is empty
\* takes the locked path, never parks, and returns None and not a value.
C17_ClosedReturnsNone ==
  /\ [][Phase' >= Phase]_vars
  /\ [][(rpc = "idle" /\ Closed /\ cache = <<>> /\ ReceiverActs) =>
          (rpc' = "r_lock" /\ results' = results)]_vars
  /\ [][(InReceive /\ Closed /\ ReceiverActs) =>
          /\ rpc' # "r_wait"
          /\ results' \in {results, Append(results, None)}]_vars

\* A value served from the cache when the shared state was already closed,
\* then None once the cache was empty too.
C17_Witness ==
  /\ Closed
  /\ Len(results) >= 3
  /\ results[Len(results)] = None
  /\ results[Len(results) - 1].kind = "Some"
  /\ ~results[Len(results) - 1].locked

\* C18 as stated: no step changes the cache while the Receiver holds the mutex.
C18_Original ==
  /\ [](rpc \in {"idle", "dropped"} => Rcv \notin lock)
  /\ [][cache' # cache => Rcv \notin lock]_vars

\* C18: only the Receiver touches the cache; the pop_front that opens receive
\* runs without the mutex; the one access made while the Receiver holds the
\* mutex is the swap that exchanges the cache with the queue.
C18_CacheUnderLockOnlyInSwap ==
  /\ [](rpc \in {"idle", "dropped"} => Rcv \notin lock)
  /\ [][cache' # cache => Moved(Rcv) \/ results' # results]_vars
  /\ [][(cache' # cache /\ Rcv \in lock) =>
          (rpc = "r_swap" /\ cache' = queue /\ queue' = cache)]_vars

\* The cache filled by the swap, the Receiver still holding the mutex.
C18_Witness ==
  /\ lock = {Rcv}
  /\ rpc = "r_ret"
  /\ Len(cache) = 1
  /\ senderCount > 0

\* C19: the locked path pops the front of the queue into t; when elements
\* remain, the swap moves them all, in order, into the (empty) cache and leaves
\* the queue empty; when none remains the swap is skipped, cache and queue
\* both empty; nothing else moves before the return, which yields t.
C19_BatchMove ==
  /\ [][(rpc = "r_match" /\ rpc' \in {"r_swap", "r_ret"}) =>
          /\ rt' = Head(queue)
          /\ queue' = Tail(queue)
          /\ cache = <<>> /\ cache' = <<>>
          /\ rpc' = IF Tail(queue) # <<>> THEN "r_swap" ELSE "r_ret"]_vars
  /\ [][rpc = "r_swap" =>
          IF rpc' = rpc THEN UNCHANGED <<queue, cache, rt>>
          ELSE /\ rpc' = "r_ret"
               /\ cache' = queue
               /\ queue' = <<>>
               /\ rt' = rt]_vars
  /\ [][rpc = "r_ret" =>
          IF rpc' = rpc THEN UNCHANGED <<queue, cache, rt>>
          ELSE /\ rpc' = "idle"
               /\ queue = <<>>
               /\ results' = Append(results, Some(rt, TRUE))
               /\ UNCHANGED <<queue, cache>>]_vars

\* Two elements left behind the popped one, now in the cache in order.
C19_Witness ==
  /\ rpc = "r_ret"
  /\ Len(cache) >= 2
  /\ cache = [i \in 1..Len(cache) |-> rt + i]
  /\ queue = <<>>

\* C20 as stated: returned values, then cache, then queue make up everything
\* appended, in every reachable state.
C20_Original == Returned \o cache \o queue = appended

\* C20: while the Receiver exists, returned values, then the value a receive
\* has popped and not yet returned, then cache, then queue make up everything
\* appended (with no receive between pop and return that is the stated
\* sequence); and the cache is empty every time the swap executes.
C20_RefinesFifo ==
  /\ rpc # "dropped" => Returned \o Undelivered = appended
  /\ rpc \in {"idle", "r_lock", "r_match", "r_wait", "r_wake"} =>
       Returned \o cache \o queue = appended
  /\ rpc = "r_swap" => cache = <<>>

\* A second batch: values returned, the swap about to run on an empty cache.
C20_Witness ==
  /\ rpc = "r_swap"
  /\ Returned # <<>>
  /\ cache = <<>>
  /\ Len(queue) >= 1

\* ------------------------------------------- send, drop, wait: the steps

DropInProgress(h) == hpc[h] \in {"d_lock", "d_dec", "d_unlock", "d_notify"}

\* C22: drop subtracts exactly one from senderCount, holding the guard, and
\* computes noSenders from the result in that same locked step; after the
\* guard is dropped it goes to notify_one exactly when noSenders is true,
\* senderCount then being 0, and otherwise ends without signalling; no other
\* step of drop changes senderCount or the condition variable.
C22_DropSignalsAtZero ==
  /\ [][\A h \in Handles :
          (hpc[h] = "d_dec" /\ Moved(h)) =>
            /\ lock = {h} /\ lock' = {h}
            /\ senderCount' = senderCount - 1
            /\ noSenders'[h] = (senderCount' = 0)]_vars
  /\ [][\A h \in Handles :
          (hpc[h] = "d_unlock" /\ Moved(h)) =>
            /\ hpc'[h] = IF noSenders[h] THEN "d_notify" ELSE "gone"
            /\ noSenders[h] = (senderCount = 0)
            /\ condVar' = condVar]_vars
  /\ [][\A h \in Handles :
          (DropInProgress(h) /\ Moved(h)) =>
            /\ hpc[h] # "d_dec" => senderCount' = senderCount
            /\ hpc[h] # "d_notify" => condVar' = condVar
            /\ (hpc[h] = "d_notify" /\ condVar # {}) => condVar' # condVar]_vars
  /\ [](\A h \in Handles :
          hpc[h] = "d_notify" => (senderCount = 0 /\ h \notin lock))

\* One Sender dropped without a signal, the last one about to signal the
\* parked Receiver.
C22_Witness ==
  /\ \E h \in Handles : hpc[h] = "d_notify"
  /\ \E h \in Handles : hpc[h] = "gone"
  /\ Rcv \in condVar

\* The Sender threads waiting for the mutex.
AtLock == {h \in Handles : hpc[h] \in {"s_lock", "c_lock", "d_lock"}}

\* C23: parked, or woken and not yet back in the mutex, the Receiver holds no
\* guard; a Sender thread waiting for the mutex while the Receiver is parked
\* gets it (some waiting Sender thread does); and the Receiver looks at the
\* queue again only with the guard back.
C23_NoLockWhileParked ==
  /\ [](rpc \in {"r_wait", "r_wake"} => Rcv \notin lock)
  /\ [](rpc = "r_match" => lock = {Rcv})
  /\ [][(rpc \in {"r_wait", "r_wake"} /\ rpc' = "r_match") =>
          (rpc = "r_wake" /\ lock = {} /\ lock' = {Rcv})]_vars
  /\ (rpc = "r_wait" /\ AtLock # {}) ~>
       (\E h \in Handles : hpc[h] \in {"s_push", "c_inc", "d_dec"})

\* The Receiver parked while a Sender pushes under the mutex.
C23_Witness ==
  /\ rpc = "r_wait"
  /\ Rcv \in condVar
  /\ \E h \in Handles : hpc[h] = "s_push" /\ lock = {h}

\* C24: every receive returned None or a value that was pushed; a wake-up
\* returns nothing: the woken Receiver takes the mutex and matches again, and
\* finding the queue empty with senderCount > 0 it waits again.
C24_WakeRechecks ==
  /\ [](\A i \in DOMAIN results :
          \/ results[i] = None
          \/ results[i].kind = "Some" /\ results[i].v \in Range(appended))
  /\ [][(rpc = "r_wait" /\ rpc' # rpc) =>
          (rpc' = "r_wake" /\ results' = results)]_vars
  /\ [][(rpc = "r_wake" /\ rpc' # rpc) =>
          (rpc' = "r_match" /\ lock' = {Rcv} /\ results' = results)]_vars
  /\ [][(rpc = "r_match" /\ queue = <<>> /\ senderCount > 0 /\ rpc' # rpc) =>
          (rpc' = "r_wait" /\ Rcv \in condVar' /\ results' = results)]_vars

\* The Receiver woken with nothing queued and a Sender alive that is not
\* sending: it has to wait again.
C24_Witness ==
  /\ rpc = "r_wake"
  /\ queue = <<>>
  /\ senderCount > 0
  /\ lock = {}
  /\ \A h \in Handles : ~SendInProgress(h)

\* The Sender threads standing at a notify_one.
AtNotify == {h \in Handles : hpc[h] \in {"s_notify", "d_notify"}}

\* C25: only the Receiver ever waits on the condition variable, and a
\* notify_one issued while it waits wakes it.
C25_SingleWaiter ==
  /\ [](condVar \subseteq {Rcv})
  /\ [](Rcv \in condVar <=> rpc = "r_wait")
  /\ [][\A h \in AtNotify :
          (Moved(h) /\ Rcv \in condVar) =>
            (condVar' = {} /\ rpc' = "r_wake")]_vars

\* Two Sender threads about to signal the one parked Receiver.
C25_Witness ==
  /\ Rcv \in condVar
  /\ Cardinality(AtNotify) >= 2

\* The threads inside clone (named by the handle being made).
CloneInProgress(n) == hpc[n] \in {"c_lock", "c_inc", "c_unlock"}

\* C26: a step of send leaves senderCount alone and changes the queue only
\* by appending one value, at its push_back; a step of clone leaves the queue
\* alone and changes senderCount only by adding 1, at its increment; a step
\* of drop leaves the queue alone and changes senderCount only by
\* subtracting 1, at its decrement; none of them changes the cache.
C26_ProducerFrames ==
  /\ [][\A h \in Handles :
          (SendInProgress(h) /\ Moved(h)) =>
            /\ senderCount' = senderCount
            /\ cache' = cache
            /\ IF hpc[h] = "s_push"
               THEN Len(queue') = Len(queue) + 1
                    /\ SubSeq(queue', 1, Len(queue)) = queue
               ELSE queue' = queue]_vars
  /\ [][\A n \in Handles :
          (CloneInProgress(n) /\ Moved(n)) =>
            /\ queue' = queue
            /\ cache' = cache
            /\ senderCount' =
                 IF hpc[n] = "c_inc" THEN senderCount + 1 ELSE senderCount]_vars
  /\ [][\A h \in Handles :
          (DropInProgress(h) /\ Moved(h)) =>
            /\ queue' = queue
            /\ cache' = cache
            /\ senderCount' =
                 IF hpc[h] = "d_dec" THEN senderCount - 1 ELSE senderCount]_vars

\* A value queued by a send, a clone counted, a drop done, and values in the
\* cache the producers left alone.
C26_Witness ==
  /\ senderCount = 1
  /\ queue # <<>>
  /\ cache # <<>>
  /\ \E h \in Handles : hpc[h] = "gone"
  /\ \A h \in Handles : hpc[h] \in {"gone", "idle"}


\* ------------------------------------------------- the spinlock Mutex
\*
\* main leaks a Mutex::new(0) and spawns the threads; each calls
\* execute(|value| *value += 1) in a loop.  One action per atomic operation
\* on isLocked and per access of the closure to the data, so that every
\* interleaving is explored.  The successful compare_exchange_weak is an
\* Acquire and the store a Release, so the accesses to data made between
\* them are ordered after those of the previous holder: the interleaving of
\* whole accesses is what a thread can observe.

\* Solution 1 of the source: the lock taken by store(true) once the load saw
\* it free or not, without comparing.
CasBlind(t) ==
  /\ tpc[t] = "cas"
  /\ isLocked' = TRUE
  /\ tpc' = [tpc EXCEPT ![t] = "read"]
  /\ UNCHANGED <<data, tval, tleft, total>>
  /\ UNCHANGED notMutex

\* compare_exchange_weak(false, true) finds false and stores true.
CasSucceeds(t) ==
  /\ tpc[t] = "cas"
  /\ isLocked = FALSE
  /\ isLocked' = TRUE
  /\ tpc' = [tpc EXCEPT ![t] = "read"]
  /\ UNCHANGED <<data, tval, tleft, total>>
  /\ UNCHANGED notMutex

\* compare_exchange_weak finds true: Err, into the inner loop.
CasFails(t) ==
  /\ tpc[t] = "cas"
  /\ isLocked = TRUE
  /\ tpc' = [tpc EXCEPT ![t] = "spin"]
  /\ UNCHANGED <<isLocked, data, tval, tleft, total>>
  /\ UNCHANGED notMutex

\* compare_exchange_weak fails although the value is false.
CasFailsSpuriously(t) ==
  /\ tpc[t] = "cas"
  /\ isLocked = FALSE
  /\ tpc' = [tpc EXCEPT ![t] = "spin"]
  /\ UNCHANGED <<isLocked, data, tval, tleft, total>>
  /\ UNCHANGED notMutex

\* while self.isLocked.load(Relaxed) {}: left when the load returns false
\* (a load returning true changes nothing).
SpinExit(t) ==
  /\ tpc[t] = "spin"
  /\ isLocked = FALSE
  /\ tpc' = [tpc EXCEPT ![t] = "cas"]
  /\ UNCHANGED <<isLocked, data, tval, tleft, total>>
  /\ UNCHANGED notMutex

\* The closure's *value += 1 on the plain usize: the read ...
ClosureRead(t) ==
  /\ tpc[t] = "read"
  /\ tval' = [tval EXCEPT ![t] = data]
  /\ tpc' = [tpc EXCEPT ![t] = "write"]
  /\ UNCHANGED <<isLocked, data, tleft, total>>
  /\ UNCHANGED notMutex

\* ... and the write.
ClosureWrite(t) ==
  /\ tpc[t] = "write"
  /\ data' = tval[t] + 1
  /\ tpc' = [tpc EXCEPT ![t] = "unlock"]
  /\ UNCHANGED <<isLocked, tval, tleft, total>>
  /\ UNCHANGED notMutex

\* isLocked.store(false, Release); the loop of the thread goes on or ends.
MutexUnlock(t) ==
  /\ tpc[t] = "unlock"
  /\ isLocked' = FALSE
  /\ tleft' = [tleft EXCEPT ![t] = tleft[t] - 1]
  /\ tpc' = [tpc EXCEPT ![t] = IF tleft[t] = 1 THEN "done" ELSE "cas"]
  /\ UNCHANGED <<data, tval, total>>
  /\ UNCHANGED notMutex

\* main, every thread joined: assert_eq!(execute(|value| *value), 10 * 1000),
\* the numbers of threads and of calls being the bounds here.
MainAssert ==
  /\ total = "running"
  /\ \A t \in Threads : tpc[t] = "done"
  /\ isLocked = FALSE
  /\ total' = IF data = MutexThreads * MutexIters THEN "ok" ELSE "panic"
  /\ UNCHANGED <<isLocked, data, tpc, tval, tleft>>
  /\ UNCHANGED notMutex

MutexNext ==
  \/ \E t \in Threads :
       \/ CasSucceeds(t) \/ CasFails(t) \/ CasFailsSpuriously(t) \/ SpinExit(t)
       \/ ClosureRead(t) \/ ClosureWrite(t) \/ MutexUnlock(t)
  \/ MainAssert

\* The channel as Channel::new leaves it.
ChannelIdle ==
  /\ queue = <<>>
  /\ senderCount = 1
  /\ lock = {}
  /\ condVar = {}
  /\ cache = <<>>
  /\ hpc = [h \in Handles |-> IF h = 1 THEN "idle" ELSE "unborn"]
  /\ noSenders = [h \in Handles |-> FALSE]
  /\ cloneOf = [h \in Handles |-> 0]
  /\ rpc = "idle"
  /\ rt = 0
  /\ appended = <<>>
  /\ results = <<>>

\* Nothing started anywhere.
AllIdle == ChannelIdle /\ OthersIdle

MutexSpec == AllIdle /\ [][MutexNext]_vars

\* The threads running the closure (lock taken, store(false) not yet done).
InClosure == {t \in Threads : tpc[t] \in {"read", "write", "unlock"}}

\* The increments thread t has made.
Increments(t) ==
  (MutexIters - tleft[t]) + (IF tpc[t] = "unlock" THEN 1 ELSE 0)

RECURSIVE SumIncrements(_)
SumIncrements(T) ==
  IF T = {} THEN 0
  ELSE LET t == CHOOSE x \in T : TRUE
       IN  Increments(t) + SumIncrements(T \ {t})

\* C13: at most one thread runs its closure at a time, and isLocked is true
\* while it does; the value is the number of increments made, none lost; all
\* threads joined, the value is threads * calls and main's assert passes.
C13_MutualExclusion ==
  /\ Cardinality(InClosure) <= 1
  /\ InClosure # {} => isLocked
  /\ data = SumIncrements(Threads)
  /\ (\A t \in Threads : tpc[t] = "done") => data = MutexThreads * MutexIters
  /\ total # "panic"

\* Every thread joined, main's assert passed.
C13_Witness ==
  /\ total = "ok"
  /\ data = MutexThreads * MutexIters
  /\ \A t \in Threads : tleft[t] = 0

\* --------------------------------------------------------- the RefCell
\*
\* One RefCell and the guards it hands out, used from one thread (RefCell is
\* not Sync).  A usize n is held as the integer congruent to it modulo 2^64
\* that is nearest to 0, so that usize::MAX is -1 and wrapping addition and
\* subtraction are the integer ones.  An overflowing - panics in a build with
\* overflow checks and wraps in one without; the build is either.  (n + 1
\* overflows only from usize::MAX, which only a wrapped - produces.)
\* Nothing is done with the RefCell once a drop has panicked.

\* The guards that exist.
LiveGuards == liveRefs + liveRefMuts

\* borrow() while a RefMut is registered: None.
BorrowRefused ==
  /\ ~cellPanicked
  /\ currentReferences = Exclusive
  /\ lastBorrow' = <<"borrow", "None">>
  /\ UNCHANGED <<currentReferences, liveRefs, liveRefMuts, cellPanicked>>
  /\ UNCHANGED notCell

\* borrow() otherwise: References::None becomes Shared(0), Shared(n) becomes
\* Shared(n + 1); Some(Ref).
Borrow ==
  /\ ~cellPanicked
  /\ LiveGuards < MaxGuards
  /\ currentReferences # Exclusive
  /\ currentReferences' =
       IF currentReferences = NoReferences THEN Shared(0)
       ELSE Shared(currentReferences.n + 1)
  /\ liveRefs' = liveRefs + 1
  /\ lastBorrow' = <<"borrow", "Some">>
  /\ UNCHANGED <<liveRefMuts, cellPanicked>>
  /\ UNCHANGED notCell

\* borrowMut() while currentReferences is not References::None: None.
BorrowMutRefused ==
  /\ ~cellPanicked
  /\ currentReferences # NoReferences
  /\ lastBorrow' = <<"borrowMut", "None">>
  /\ UNCHANGED <<currentReferences, liveRefs, liveRefMuts, cellPanicked>>
  /\ UNCHANGED notCell

\* borrowMut() with References::None: Exclusive, Some(RefMut).
BorrowMut ==
  /\ ~cellPanicked
  /\ LiveGuards < MaxGuards
  /\ currentReferences = NoReferences
  /\ currentReferences' = Exclusive
  /\ liveRefMuts' = liveRefMuts + 1
  /\ lastBorrow' = <<"borrowMut", "Some">>
  /\ UNCHANGED <<liveRefs, cellPanicked>>
  /\ UNCHANGED notCell

\* Drop for Ref: Shared(1) becomes References::None, any other Shared(n)
\* becomes Shared(n - 1).
DropRef ==
  /\ ~cellPanicked
  /\ liveRefs > 0
  /\ currentReferences.tag = "Shared"
  /\ currentReferences.n # 0
  /\ currentReferences' =
       IF currentReferences.n = 1 THEN NoReferences
       ELSE Shared(currentReferences.n - 1)
  /\ liveRefs' = liveRefs - 1
  /\ UNCHANGED <<liveRefMuts, lastBorrow, cellPanicked>>
  /\ UNCHANGED notCell

\* Drop for Ref on Shared(0): 0 - 1 wraps to usize::MAX ...
DropRefWraps ==
  /\ ~cellPanicked
  /\ ~overflowChecks
  /\ liveRefs > 0
  /\ currentReferences = Shared(0)
  /\ currentReferences' = Shared(-1)
  /\ liveRefs' = liveRefs - 1
  /\ UNCHANGED <<liveRefMuts, lastBorrow, cellPanicked>>
  /\ UNCHANGED notCell

\* ... or panics (overflow checks); and Drop for Ref on References::None or
\* Exclusive reaches unreachable!().
DropRefPanics ==
  /\ ~cellPanicked
  /\ liveRefs > 0
  /\ currentReferences.tag = "Shared" =>
       (currentReferences.n = 0 /\ overflowChecks)
  /\ liveRefs' = liveRefs - 1
  /\ cellPanicked' = TRUE
  /\ UNCHANGED <<currentReferences, liveRefMuts, lastBorrow>>
  /\ UNCHANGED notCell

\* Drop for RefMut: References::None.
DropRefMut ==
  /\ ~cellPanicked
  /\ liveRefMuts > 0
  /\ currentReferences' = NoReferences
  /\ liveRefMuts' = liveRefMuts - 1
  /\ UNCHANGED <<liveRefs, lastBorrow, cellPanicked>>
  /\ UNCHANGED notCell

RefCellNext ==
  \/ Borrow \/ BorrowRefused
  \/ BorrowMut \/ BorrowMutRefused
  \/ DropRef \/ DropRefWraps \/ DropRefPanics
  \/ DropRefMut

\* Nothing started, the build profile either one.
AnyProfile ==
  /\ ChannelIdle /\ MutexInit /\ RefCellInit /\ RcInit /\ BuilderIdle
  /\ overflowChecks \in BOOLEAN
  /\ RestIdle

RefCellSpec == AnyProfile /\ [][RefCellNext]_vars

\* C14: borrowMut hands out a RefMut only when no Ref and no RefMut of the
\* RefCell is alive (it returns None otherwise), and a live RefMut is the only
\* live guard.
C14_BorrowMutExclusive ==
  /\ [][liveRefMuts' > liveRefMuts => LiveGuards = 0]_vars
  /\ [](liveRefMuts > 0 => LiveGuards = 1)

\* C27: with no RefMut about, currentReferences is Shared(n) for n the number
\* of live Refs, and References::None when there is none; and no drop of a Ref
\* has panicked (on an underflowing n - 1 or in the unreachable!() arm).
C27_SharedCountsRefs ==
  /\ liveRefMuts = 0 =>
       currentReferences =
         IF liveRefs = 0 THEN NoReferences ELSE Shared(liveRefs)
  /\ ~cellPanicked

\* -------------------------------------------------------------- the Rc
\*
\* One allocation made by Rc::new and the handles to it, used from one
\* thread (Rc is not Send).  usize values and the build profile as for the
\* RefCell.  Once the allocation is freed, a handle that is left dangles:
\* clone and drop through it read freed memory, which is undefined
\* behaviour, so the refCount they read is any value.  Nothing is done once a
\* drop has panicked or the allocation has been freed twice.

\* The refCount a clone or drop reads through its handle: the field, or any
\* value when the allocation is gone.
ReadRefCount ==
  IF rcFrees = 0 THEN {refCount} ELSE -1..MaxRcHandles

RcUsable == ~rcPanicked /\ rcFrees < 2 /\ rcHandles > 0

\* Clone for Rc: refCount.set(previousRefCount + 1), one more handle.
RcClone ==
  /\ RcUsable
  /\ rcHandles < MaxRcHandles
  /\ \E previousRefCount \in ReadRefCount :
       refCount' = previousRefCount + 1
  /\ rcHandles' = rcHandles + 1
  /\ UNCHANGED <<rcFrees, rcPanicked>>
  /\ UNCHANGED notRc

\* Drop for Rc reading 1: Box::from_raw frees the allocation.
RcDropFrees ==
  /\ RcUsable
  /\ 1 \in ReadRefCount
  /\ rcFrees' = rcFrees + 1
  /\ rcHandles' = rcHandles - 1
  /\ UNCHANGED <<refCount, rcPanicked>>
  /\ UNCHANGED notRc

\* Drop for Rc reading anything else: refCount.set(previousRefCount - 1);
\* from 0 the subtraction wraps to usize::MAX without overflow checks ...
RcDropDecrements ==
  /\ RcUsable
  /\ \E previousRefCount \in ReadRefCount \ {1} :
       /\ previousRefCount = 0 => ~overflowChecks
       /\ refCount' = previousRefCount - 1
  /\ rcHandles' = rcHandles - 1
  /\ UNCHANGED <<rcFrees, rcPanicked>>
  /\ UNCHANGED notRc

\* ... and panics with them.
RcDropPanics ==
  /\ RcUsable
  /\ overflowChecks
  /\ 0 \in ReadRefCount
  /\ rcHandles' = rcHandles - 1
  /\ rcPanicked' = TRUE
  /\ UNCHANGED <<refCount, rcFrees>>
  /\ UNCHANGED notRc

RcNext == RcClone \/ RcDropFrees \/ RcDropDecrements \/ RcDropPanics

RcSpec == AnyProfile /\ [][RcNext]_vars

\* C15: the allocation is freed exactly when the last handle is dropped: not
\* freed while a handle is alive, and freed, once, when none is left.
C15_FreedWithLastHandle ==
  /\ rcFrees > 0 => rcHandles = 0
  /\ rcHandles = 0 => rcFrees = 1

\* ------------------------------------------------- #[derive(Builder)]
\*
\* The builder the macro generates for a struct with the four fields of
\* Command, the type of each field being any of TypePaths, written as the
\* segments of its path (generic arguments left out: the macro's tests look
\* at the segments only).  An Option<T> value is <<>> for None and <<v>> for
\* Some(v).

\* The types a field is declared with: String, Vec<String>, Option<String>,
\* and Option<String> written with its full path.
TypePaths ==
  {<<"String">>, <<"Vec">>, <<"Option">>, <<"std", "option", "Option">>}

\* The field's type is an Option.
IsOption(ty) == ty[Len(ty)] = "Option"

\* fn isOptionType: a path of one segment, the last being Option.
isOptionType(ty) == Len(ty) = 1 /\ ty[Len(ty)] = "Option"

\* What the setter of a field takes: the T of a field the macro sees as
\* Option<T>, else a value of the field's type (itself an Option when the
\* type is one the macro does not see as such).
SetterArgs(ty) ==
  IF IsOption(ty) /\ ~isOptionType(ty)
  THEN {<<>>} \cup {<<v>> : v \in 1..MaxFieldValue}
  ELSE 1..MaxFieldValue

\* The generated setter: self.field = Some(arg).
Setter(f, arg) ==
  /\ builder' = [builder EXCEPT ![f] = <<arg>>]
  /\ built' = <<>>
  /\ UNCHANGED fieldType
  /\ UNCHANGED notBuilder

\* buildMethodFields with the Option test left out: every field unwrapped.
RequiredAlways(f) == TRUE

\* buildMethodFields: a field the macro does not see as an Option is
\* unwrapped by ok_or(..)?.
Required(f) == ~isOptionType(fieldType[f])

\* concat!(stringify!(field), " is not set")
NotSet(f) == f \o " is not set"

\* The fields of the struct literal of build from the i-th on: the first
\* required field that is None returns the error.
RECURSIVE BuildFrom(_, _)
BuildFrom(i, acc) ==
  IF i > Len(Fields) THEN [ok |-> TRUE, value |-> acc, err |-> ""]
  ELSE LET f == Fields[i]
       IN  IF ~Required(f)
           THEN BuildFrom(i + 1, [acc EXCEPT ![f] = builder[f]])
           ELSE IF builder[f] = <<>>
           THEN [ok |-> FALSE, value |-> BuilderNew, err |-> NotSet(f)]
           ELSE BuildFrom(i + 1, [acc EXCEPT ![f] = builder[f][1]])

\* build(&self): Ok(Command { .. }) or the error; the builder is only read.
Build ==
  /\ built' = <<BuildFrom(1, BuilderNew)>>
  /\ UNCHANGED <<fieldType, builder>>
  /\ UNCHANGED notBuilder

BuilderNext ==
  \/ \E f \in FieldNames : \E arg \in SetterArgs(fieldType[f]) : Setter(f, arg)
  \/ Build

\* Command::builder() for a struct of any field types.
BuilderInit ==
  /\ ChannelIdle /\ MutexInit /\ RefCellInit /\ RcInit /\ overflowChecks = TRUE
  /\ RestIdle
  /\ fieldType \in [FieldNames -> TypePaths]
  /\ builder = BuilderNew
  /\ built = <<>>

BuilderSpec == BuilderInit /\ [][BuilderNext]_vars

\* What build owes for the fields in Req being the ones that must be set:
\* with all of them set, Ok with every field as set (a field outside Req as
\* the Option the builder holds, None when never set); with one of them never
\* set, the error naming such a field.
BuildOutcome(Req, r) ==
  IF \A f \in Req : builder[f] # <<>>
  THEN /\ r.ok
       /\ \A f \in FieldNames :
            r.value[f] = IF f \in Req THEN builder[f][1] ELSE builder[f]
  ELSE /\ ~r.ok
       /\ \E f \in Req : builder[f] = <<>> /\ r.err = NotSet(f)

\* C16 as stated: the fields that must be set are those whose type is not an
\* Option.
C16_Original ==
  built # <<>> =>
    BuildOutcome({f \in FieldNames : ~IsOption(fieldType[f])}, built[1])

\* C16: the fields that must be set are those whose type is not written as
\* the one-segment path Option<..>; build returns Ok with the values set when
\* all of them were set (the other fields None when never set) and the error
\* "<field> is not set" for one that was not; build leaves the builder as it
\* was.
C16_BuildOutcome ==
  /\ [](built # <<>> =>
         BuildOutcome({f \in FieldNames : ~isOptionType(fieldType[f])}, built[1]))
  /\ [][built' # <<>> => builder' = builder]_vars

\* Ok with an Option field never set, after an error for a field not set.
C16_Witness ==
  /\ built # <<>>
  /\ built[1].ok
  /\ \E f \in FieldNames :
       isOptionType(fieldType[f]) /\ builder[f] = <<>> /\ built[1].value[f] = <<>>
  /\ \E f \in FieldNames : ~IsOption(fieldType[f])

\* ------------------------------------------- _vec!(element; count)
\*
\* The second arm of the macro, statement by statement, for an element
\* expression of any value and any count.

\* let x = $element;
VecLetX ==
  /\ vecPc = "start"
  /\ letX' = argElement
  /\ elementEvals' = elementEvals + 1
  /\ vecPc' = "count"
  /\ UNCHANGED <<argElement, argCount, letCount, xs, forI>>
  /\ UNCHANGED notVec

\* let count = $count; let mut xs = Vec::with_capacity(count); and the range
\* 1..count of the for loop made, standing at its start.
VecLetCount ==
  /\ vecPc = "count"
  /\ letCount' = argCount
  /\ xs' = <<>>
  /\ forI' = 1
  /\ vecPc' = "for"
  /\ UNCHANGED <<argElement, argCount, letX, elementEvals>>
  /\ UNCHANGED notVec

\* One turn of for _ in 1..count: the range yields while its start is below
\* count; xs.push(x.clone()).
VecPush ==
  /\ vecPc = "for"
  /\ forI < letCount
  /\ xs' = Append(xs, letX)
  /\ forI' = forI + 1
  /\ UNCHANGED <<argElement, argCount, letX, letCount, vecPc, elementEvals>>
  /\ UNCHANGED notVec

\* The range is exhausted: the block ends with xs.
VecReturn ==
  /\ vecPc = "for"
  /\ ~(forI < letCount)
  /\ vecPc' = "done"
  /\ UNCHANGED <<argElement, argCount, letX, letCount, xs, forI, elementEvals>>
  /\ UNCHANGED notVec

VecNext == VecLetX \/ VecLetCount \/ VecPush \/ VecReturn

\* _vec!(element; count) for any element and count, about to be evaluated.
VecInit ==
  /\ ChannelIdle /\ MutexInit /\ RefCellInit /\ RcInit /\ BuilderIdle
  /\ overflowChecks = TRUE
  /\ FlattenIdle /\ SplitIdle
  /\ argElement \in 1..MaxElement
  /\ argCount \in 0..MaxCount
  /\ letX = 0
  /\ letCount = 0
  /\ xs = <<>>
  /\ forI = 1
  /\ vecPc = "start"
  /\ elementEvals = 0

VecSpec == VecInit /\ [][VecNext]_vars

\* C28: _vec!(element; count) evaluates element once and returns count
\* entries, each the value of element (what xs.resize(count, element) gives).
C28_VecOfCount ==
  vecPc = "done" =>
    /\ elementEvals = 1
    /\ xs = [i \in 1..argCount |-> argElement]

\* ------------------------------------------------------------ Flatten
\*
\* Flatten over a collection of collections (vectors: their iterators are
\* double-ended and keep returning None once exhausted).  An iterator is the
\* sequence of the items it has left; an Option<iterator> is <<>> for None
\* and <<it>> for Some(it).  A call of next or next_back is one action: the
\* whole loop, computed as the code runs it.

\* The Flatten as a value.
FlattenState ==
  [outer |-> outerIterator,
   front |-> frontInnerIterator,
   back  |-> backInnerIterator]

\* Everything but the last item of a sequence.
Front(s) == SubSeq(s, 1, Len(s) - 1)

Last(s) == s[Len(s)]

\* next with the outer iterator exhausted and nothing looked at behind it.
NextFromBackNone(st) == [item |-> <<>>, st |-> st]

\* return self.backInnerIterator.as_mut()?.next()
NextFromBack(st) ==
  IF st.back = <<>> \/ st.back[1] = <<>>
  THEN [item |-> <<>>, st |-> st]
  ELSE [item |-> <<Head(st.back[1])>>,
        st   |-> [st EXCEPT !.back = <<Tail(st.back[1])>>]]

\* The loop of next: the front inner iterator's next item if it has one;
\* else that iterator is dropped and the outer iterator asked for the next
\* one; else the back inner iterator is asked.
RECURSIVE NextLoop(_)
NextLoop(st) ==
  IF st.front # <<>> /\ st.front[1] # <<>>
  THEN [item |-> <<Head(st.front[1])>>,
        st   |-> [st EXCEPT !.front = <<Tail(st.front[1])>>]]
  ELSE LET exhausted == [st EXCEPT !.front = <<>>]
       IN  IF exhausted.outer # <<>>
           THEN NextLoop([exhausted EXCEPT !.front = <<Head(exhausted.outer)>>,
                                           !.outer = Tail(exhausted.outer)])
           ELSE NextFromBack(exhausted)

\* return self.frontInnerIterator.as_mut()?.next_back()
NextBackFromFront(st) ==
  IF st.front = <<>> \/ st.front[1] = <<>>
  THEN [item |-> <<>>, st |-> st]
  ELSE [item |-> <<Last(st.front[1])>>,
        st   |-> [st EXCEPT !.front = <<Front(st.front[1])>>]]

\* The loop of next_back, the mirror image.
RECURSIVE NextBackLoop(_)
NextBackLoop(st) ==
  IF st.back # <<>> /\ st.back[1] # <<>>
  THEN [item |-> <<Last(st.back[1])>>,
        st   |-> [st EXCEPT !.back = <<Front(st.back[1])>>]]
  ELSE LET exhausted == [st EXCEPT !.back = <<>>]
       IN  IF exhausted.outer # <<>>
           THEN NextBackLoop([exhausted EXCEPT !.back = <<Last(exhausted.outer)>>,
                                               !.outer = Front(exhausted.outer)])
           ELSE NextBackFromFront(exhausted)

\* A call of next.
FlattenNext ==
  LET r == NextLoop(FlattenState)
  IN  /\ outerIterator' = r.st.outer
      /\ frontInnerIterator' = r.st.front
      /\ backInnerIterator' = r.st.back
      /\ lastItem' = r.item
      /\ yieldedFront' = yieldedFront \o r.item
      /\ UNCHANGED <<collection, yieldedBack>>
      /\ UNCHANGED notFlatten

\* A call of next_back.
FlattenNextBack ==
  LET r == NextBackLoop(FlattenState)
  IN  /\ outerIterator' = r.st.outer
      /\ frontInnerIterator' = r.st.front
      /\ backInnerIterator' = r.st.back
      /\ lastItem' = r.item
      /\ yieldedBack' = yieldedBack \o r.item
      /\ UNCHANGED <<collection, yieldedFront>>
      /\ UNCHANGED notFlatten

FlattenActs == FlattenNext \/ FlattenNextBack

\* The concatenation of a sequence of sequences.
RECURSIVE Flat(_)
Flat(ss) == IF ss = <<>> THEN <<>> ELSE Head(ss) \o Flat(Tail(ss))

RECURSIVE Reverse(_)
Reverse(s) == IF s = <<>> THEN <<>> ELSE Append(Reverse(Tail(s)), Head(s))

\* The items of the first i members of lens, added up.
RECURSIVE Offset(_, _)
Offset(lens, i) == IF i = 0 THEN 0 ELSE lens[i] + Offset(lens, i - 1)

\* The collection of inner collections of the given lengths, its items
\* numbered 1, 2, .. in order, so that each item is told from every other.
Numbered(lens) ==
  [i \in 1..Len(lens) |-> [j \in 1..lens[i] |-> Offset(lens, i - 1) + j]]

\* The collections flatten is called on.
Collections ==
  UNION {{Numbered(lens) : lens \in [1..n -> 0..MaxInner]} : n \in 0..MaxOuter}

\* flatten(c) for any such c.
FlattenInit ==
  /\ ChannelIdle /\ MutexInit /\ RefCellInit /\ RcInit /\ BuilderIdle
  /\ overflowChecks = TRUE
  /\ VecIdle /\ SplitIdle
  /\ \E c \in Collections : FlattenNew(c)

FlattenSpec == FlattenInit /\ [][FlattenActs]_vars

\* The items not yet yielded, in order.
Remaining ==
  (IF frontInnerIterator = <<>> THEN <<>> ELSE frontInnerIterator[1])
    \o Flat(outerIterator)
    \o (IF backInnerIterator = <<>> THEN <<>> ELSE backInnerIterator[1])

\* C29: what next has yielded, then the items not yet yielded, then what
\* next_back has yielded reversed, is the concatenation of the inner
\* collections, whatever the interleaving of the calls; next returns the
\* first item not yet yielded and next_back the last, and each returns None
\* exactly when none is left.
C29_FlattenConcatenates ==
  /\ yieldedFront \o Remaining \o Reverse(yieldedBack) = Flat(collection)
  /\ NextLoop(FlattenState).item =
       IF Remaining = <<>> THEN <<>> ELSE <<Head(Remaining)>>
  /\ NextBackLoop(FlattenState).item =
       IF Remaining = <<>> THEN <<>> ELSE <<Last(Remaining)>>

\* Items taken from both ends of a collection with an empty inner collection
\* in it, all of them yielded, the last call having returned None.
C29_Witness ==
  /\ Remaining = <<>>
  /\ lastItem = <<>>
  /\ Len(yieldedFront) >= 2
  /\ Len(yieldedBack) >= 2
  /\ \E i \in DOMAIN collection : collection[i] = <<>>
  /\ Len(collection) = MaxOuter

\* ------------------------------------------------------------ StrSplit
\*
\* StrSplit over a haystack with a &str delimiter.  A string is the sequence
\* of its characters; Option<&str> is <<>> for None and <<s>> for Some(s).
\* Offsets are counted from 0, as the code counts them.

Alphabet == {"a", "b"}

\* The strings of at most n characters.
Strings(n) == UNION {[1..k -> Alphabet] : k \in 0..n}

\* d lies in s at offset o.
MatchesAt(s, d, o) ==
  /\ o + Len(d) <= Len(s)
  /\ SubSeq(s, o + 1, o + Len(d)) = d

\* s.find(d): the offset of the first match of d in s.
StrFind(s, d) ==
  LET hits == {o \in 0..Len(s) : MatchesAt(s, d, o)}
  IN  IF hits = {} THEN <<>>
      ELSE <<CHOOSE o \in hits : \A h \in hits : o <= h>>

\* find_next that takes the delimeter to be one character long.
find_nextOneLong(d, s) ==
  IF StrFind(s, d) = <<>> THEN <<>>
  ELSE <<StrFind(s, d)[1], StrFind(s, d)[1] + 1>>

\* s.find(self).map(|start| (start, start + self.len()))
find_next(d, s) ==
  IF StrFind(s, d) = <<>> THEN <<>>
  ELSE <<StrFind(s, d)[1], StrFind(s, d)[1] + Len(d)>>

\* next with a delimeter found in the remainder: the piece before it is
\* returned and what follows it is the new remainder.
SplitNextPiece ==
  /\ remainder # <<>>
  /\ find_next(delimeter, remainder[1]) # <<>>
  /\ LET found == find_next(delimeter, remainder[1])
         until_delimeter == SubSeq(remainder[1], 1, found[1])
     IN  /\ remainder' = <<SubSeq(remainder[1], found[2] + 1, Len(remainder[1]))>>
         /\ pieces' = Append(pieces, until_delimeter)
         /\ lastPiece' = <<until_delimeter>>
  /\ UNCHANGED <<haystack, delimeter>>
  /\ UNCHANGED notSplit

\* next with no delimeter left: self.remainder.take().
SplitNextLast ==
  /\ remainder # <<>>
  /\ find_next(delimeter, remainder[1]) = <<>>
  /\ remainder' = <<>>
  /\ pieces' = Append(pieces, remainder[1])
  /\ lastPiece' = remainder
  /\ UNCHANGED <<haystack, delimeter>>
  /\ UNCHANGED notSplit

\* next with the remainder taken: the ? returns None.
SplitNextNone ==
  /\ remainder = <<>>
  /\ lastPiece' = <<>>
  /\ UNCHANGED <<haystack, delimeter, remainder, pieces>>
  /\ UNCHANGED notSplit

SplitNext == SplitNextPiece \/ SplitNextLast \/ SplitNextNone

\* StrSplit::new(h, d) for any haystack and any non-empty delimeter.
SplitInit ==
  /\ ChannelIdle /\ MutexInit /\ RefCellInit /\ RcInit /\ BuilderIdle
  /\ overflowChecks = TRUE
  /\ VecIdle /\ FlattenIdle
  /\ \E h \in Strings(MaxHaystack) :
       \E d \in Strings(MaxDelimeter) \ {<<>>} : StrSplitNew(h, d)

SplitSpec == SplitInit /\ [][SplitNext]_vars

\* The strings of ps with d between each two of them.
RECURSIVE Join(_, _)
Join(ps, d) ==
  IF ps = <<>> THEN <<>>
  ELSE IF Len(ps) = 1 THEN ps[1]
  ELSE ps[1] \o d \o Join(Tail(ps), d)

\* The successive occurrences of d in s from offset o on: each is looked for
\* after the end of the one before, so no two overlap.
RECURSIVE Occurrences(_, _, _)
Occurrences(s, d, o) ==
  IF o + Len(d) > Len(s) THEN 0
  ELSE IF MatchesAt(s, d, o) THEN 1 + Occurrences(s, d, o + Len(d))
  ELSE Occurrences(s, d, o + 1)

\* The last of the successive occurrences of d in s ends s.
RECURSIVE EndsOnOccurrence(_, _, _)
EndsOnOccurrence(s, d, o) ==
  IF o + Len(d) > Len(s) THEN FALSE
  ELSE IF MatchesAt(s, d, o)
       THEN o + Len(d) = Len(s) \/ EndsOnOccurrence(s, d, o + Len(d))
  ELSE EndsOnOccurrence(s, d, o + 1)

\* s ends with d.
EndsWith(s, d) ==
  /\ Len(d) <= Len(s)
  /\ SubSeq(s, Len(s) - Len(d) + 1, Len(s)) = d

\* The pieces yielded, followed by the remainder if there still is one.
PiecesAndRemainder == pieces \o remainder

\* Once the remainder is taken, next returns None and yields nothing more.
NoneEverAfter ==
  remainder = <<>> => /\ remainder' = <<>>
                      /\ pieces' = pieces
                      /\ lastPiece' = <<>>

\* C30 as stated: the pieces joined with the delimeter are the haystack;
\* once all are yielded there are occurrences + 1 of them, the last one empty
\* if the haystack ends with the delimeter; after the last piece next
\* returns None on every later call.
C30_Original ==
  /\ [](Join(PiecesAndRemainder, delimeter) = haystack)
  /\ [](remainder = <<>> =>
          /\ Len(pieces) = Occurrences(haystack, delimeter, 0) + 1
          /\ EndsWith(haystack, delimeter) => Last(pieces) = <<>>)
  /\ [][NoneEverAfter]_vars

\* C30: the pieces yielded so far and the remainder, joined with the
\* delimeter, are the haystack, and no piece yielded before the last holds
\* the delimeter; once all are yielded there are one more of them than
\* successive (non-overlapping, leftmost first) occurrences of the
\* delimeter, and the last one is empty exactly when the haystack is empty
\* or the last of these occurrences ends it; after the last piece next returns None on
\* every later call and yields nothing more.
C30_SplitPieces ==
  /\ [](Join(PiecesAndRemainder, delimeter) = haystack)
  /\ [](\A k \in 1..Len(pieces) : StrFind(pieces[k], delimeter) = <<>>)
  /\ [](remainder = <<>> =>
          /\ Len(pieces) = Occurrences(haystack, delimeter, 0) + 1
          /\ Last(pieces) = <<>> <=>
                \/ haystack = <<>>
                \/ EndsOnOccurrence(haystack, delimeter, 0))
  /\ [][NoneEverAfter]_vars

\* A haystack ending on an occurrence of a two-character delimeter, split
\* into three pieces, the last one empty, and next called once more.
C30_Witness ==
  /\ remainder = <<>>
  /\ lastPiece = <<>>
  /\ Len(delimeter) = 2
  /\ Len(pieces) = 3
  /\ Last(pieces) = <<>>
  /\ EndsWith(haystack, delimeter)

====
